---- MODULE Spec2Model ----
(***************************************************************************)
(* Model of the TTC bus schedule fragility pipeline                        *)
(* (gtfs_bus_schedule_fragility.py) and of the dashboard's auto-rebuild    *)
(* logic (app.py).                                                         *)
(*                                                                         *)
(* Numbers.  The script works on float minutes; the model keeps exact      *)
(* integers by carrying a scale with every derived quantity:               *)
(*   runtime, layover         seconds            (minutes * 60)            *)
(*   median layover           half seconds       (minutes * 120)           *)
(*   p10/p90, runtime spread  tenths of a second (minutes * 600)           *)
(*   k                        1/200 second       (minutes * 12000)         *)
(* Scores are exact fractions [num, den].                                  *)
(***************************************************************************)
EXTENDS Integers, Sequences, FiniteSets, TLC

VARIABLES
    \* --- one run of gtfs_bus_schedule_fragility.py ---
    pc,               \* position of the script
    err,              \* the exception that ended the run, "" if none
    resources,        \* pkg["result"]["resources"] as served by the catalog
    archive,          \* the tables inside the remote GTFS zip
    gtfs_url,         \* URL of the selected resource, <<>> before selection
    routes, trips, stop_times, calendar,
    bus_trip_runtime, summary, block_trips, layovers, layover_summary,
    k,            \* the normalizer (1/200 s), NaN before it is computed
    fragility_base, out,
    prior_files,      \* contents of the two output files when the run began
    dated_file,       \* data/fragility_by_timeband_<today>.csv
    latest_file,      \* data/fragility_by_timeband_latest.csv
    \* --- the Time Normalizer on its own ---
    clock_text, start_sec, band,
    \* --- app.py sessions ---
    csv_file,         \* fragility_by_timeband.csv (CSV_PATH), NoFile if absent
    built_file,       \* what the last successful rebuild wrote
    meta,             \* .gtfs_meta.json: the stored remote signature
    remote,           \* signature the server currently reports
    data_cache,       \* st.cache_data entry of load_data(), NoFile if none
    builds,           \* number of successful rebuilds so far
    session           \* what the last session did

pipeVars == <<pc, err, resources, archive, gtfs_url, routes, trips, stop_times,
              calendar, bus_trip_runtime, summary, block_trips, layovers,
              layover_summary, k, fragility_base, out, prior_files,
              dated_file, latest_file>>
bandVars == <<clock_text, start_sec, band>>
appVars == <<csv_file, built_file, meta, remote, data_cache, builds, session>>
vars == <<pipeVars, bandVars, appVars>>

(***************************************************************************)
(* Generic helpers (what the pandas / Python primitives compute)           *)
(***************************************************************************)
Range(seq) == {seq[i] : i \in 1..Len(seq)}

RECURSIVE SetToSeq(_)
SetToSeq(S) == IF S = {} THEN <<>>
               ELSE LET x == CHOOSE x \in S : TRUE IN <<x>> \o SetToSeq(S \ {x})

\* Lexicographic order on equal-length integer tuples.
RECURSIVE LexLess(_, _)
LexLess(a, b) ==
    IF a = <<>> \/ b = <<>> THEN FALSE
    ELSE IF a[1] # b[1] THEN a[1] < b[1]
    ELSE LexLess(Tail(a), Tail(b))

\* Stable sort of seq by an integer-tuple key (DataFrame.sort_values on
\* several columns is a stable lexsort).
SortedBy(seq, Key(_)) ==
    LET n == Len(seq)
        rank(i) == 1 + Cardinality({j \in 1..n :
                        \/ LexLess(Key(seq[j]), Key(seq[i]))
                        \/ Key(seq[j]) = Key(seq[i]) /\ j < i})
    IN [p \in 1..n |-> seq[CHOOSE i \in 1..n : rank(i) = p]]

SelectRows(seq, Keep(_)) == SelectSeq(seq, Keep)

\* Series.quantile(q) with q = qNum/qDen, linear interpolation, on a
\* non-empty sequence of integers; the result is qDen times the quantile.
QuantileTimes(vals, qNum, qDen) ==
    LET v    == SortedBy(vals, LAMBDA x : <<x>>)
        h    == qNum * (Len(v) - 1)
        lo   == h \div qDen
        frac == h % qDen
    IN IF frac = 0 THEN qDen * v[lo + 1]
       ELSE qDen * v[lo + 1] + frac * (v[lo + 2] - v[lo + 1])

RECURSIVE Gcd(_, _)
Gcd(a, b) == IF b = 0 THEN a ELSE Gcd(b, a % b)

\* A fraction in lowest terms (den > 0).
Frac(n, d) == LET g == Gcd(IF n < 0 THEN -n ELSE n, d)
              IN [num |-> n \div g, den |-> d \div g]

FracAdd(x, y) == Frac(x.num * y.den + y.num * x.den, x.den * y.den)
FracScale(c, x) == Frac(c * x.num, x.den)

(***************************************************************************)
(* Time Normalizer: hms_to_seconds, time_band_from_sec                     *)
(***************************************************************************)
\* Clock text is a sequence of one-character strings.
Digits == <<"0", "1", "2", "3", "4", "5", "6", "7", "8", "9">>
IsDigit(c) == \E d \in 1..10 : Digits[d] = c
DigitVal(c) == (CHOOSE d \in 1..10 : Digits[d] = c) - 1

\* str.split(":")
RECURSIVE SplitColon(_)
SplitColon(text) ==
    IF \A i \in 1..Len(text) : text[i] # ":" THEN <<text>>
    ELSE LET p == CHOOSE i \in 1..Len(text) :
                      text[i] = ":" /\ \A j \in 1..(i - 1) : text[j] # ":"
         IN <<SubSeq(text, 1, p - 1)>> \o SplitColon(SubSeq(text, p + 1, Len(text)))

\* int(s) for an unsigned decimal string; ValueError otherwise.
IsIntText(s) == Len(s) > 0 /\ \A i \in 1..Len(s) : IsDigit(s[i])
RECURSIVE IntOf(_)
IntOf(s) == IF s = <<>> THEN 0
            ELSE 10 * IntOf(SubSeq(s, 1, Len(s) - 1)) + DigitVal(s[Len(s)])

\* hms_to_seconds raises ValueError when the text does not unpack into three
\* parts or a part is not an integer; otherwise it returns the seconds.
hms_raises(s) ==
    LET parts == SplitColon(s)
    IN Len(parts) # 3 \/ \E i \in 1..Len(parts) : ~IsIntText(parts[i])

hms_to_seconds(s) ==
    LET parts == SplitColon(s)
    IN IntOf(parts[1]) * 3600 + IntOf(parts[2]) * 60 + IntOf(parts[3])

AMPeak == "AM Peak (6-9)"
Midday == "Midday (9-15)"
PMPeak == "PM Peak (15-19)"
Evening == "Evening (19-24)"
Overnight == "Overnight (0-6)"
Bands == {AMPeak, Midday, PMPeak, Evening, Overnight}

time_band_from_sec_nowrap(sec) ==
    LET hour == sec \div 3600
    IN IF 6 <= hour /\ hour < 9 THEN AMPeak
       ELSE IF 9 <= hour /\ hour < 15 THEN Midday
       ELSE IF 15 <= hour /\ hour < 19 THEN PMPeak
       ELSE IF 19 <= hour /\ hour < 24 THEN Evening
       ELSE Overnight

time_band_from_sec(sec) ==
    LET s == sec % 86400
        hour == s \div 3600
    IN IF 6 <= hour /\ hour < 9 THEN AMPeak
       ELSE IF 9 <= hour /\ hour < 15 THEN Midday
       ELSE IF 15 <= hour /\ hour < 19 THEN PMPeak
       ELSE IF 19 <= hour /\ hour < 24 THEN Evening
       ELSE Overnight

\* Two-digit decimal rendering, used to write the clock texts of the feeds.
TwoDigits(n) == <<Digits[(n \div 10) + 1], Digits[(n % 10) + 1]>>
ClockText(sec) ==
    TwoDigits(sec \div 3600) \o <<":">> \o TwoDigits((sec % 3600) \div 60)
        \o <<":">> \o TwoDigits(sec % 60)

(***************************************************************************)
(* Feed Loader: resource selection                                         *)
(***************************************************************************)
\* URLs and names are sequences of text fragments; None is the empty text.
Lower(tok) ==
    CASE tok = "GTFS" -> "gtfs"
      [] tok = "Gtfs" -> "gtfs"
      [] tok = ".ZIP" -> ".zip"
      [] OTHER -> tok

EndsWithZip(text) == Len(text) > 0 /\ Lower(text[Len(text)]) = ".zip"
ContainsGtfs(text) == \E i \in 1..Len(text) : Lower(text[i]) = "gtfs"

LooksLikeGtfsZip(r) ==
    EndsWithZip(r.url) /\ (ContainsGtfs(r.url) \/ ContainsGtfs(r.name))

NoResource == 0

\* Index of the first resource satisfying Test, or NoResource.
FirstIndex(res, Test(_)) ==
    IF \E i \in 1..Len(res) : Test(res[i])
    THEN CHOOSE i \in 1..Len(res) :
             Test(res[i]) /\ \A j \in 1..(i - 1) : ~Test(res[j])
    ELSE NoResource

\* gtfs_bus_schedule_fragility.py: the heuristic loop only.
gtfs_res(res) == FirstIndex(res, LooksLikeGtfsZip)

(***************************************************************************)
(* Service Filter, Trip Runtime Extractor                                  *)
(***************************************************************************)
BusRouteType == 3

weekday_service_ids(cal) ==
    {c.service_id : c \in {r \in Range(cal) :
        /\ r.monday = 1 /\ r.tuesday = 1 /\ r.wednesday = 1
        /\ r.thursday = 1 /\ r.friday = 1
        /\ r.saturday = 0 /\ r.sunday = 0}}

bus_routes_of(rts) == SelectRows(rts, LAMBDA r : r.route_type = BusRouteType)

RECURSIVE Concat(_)
Concat(seqs) == IF seqs = <<>> THEN <<>> ELSE Head(seqs) \o Concat(Tail(seqs))

\* trips.merge(bus_routes, on="route_id", how="inner"): left order kept, one
\* output row per matching pair.
bus_trips_of(trps, rts) ==
    LET br == bus_routes_of(rts)
        joined(t) == [i \in 1..Len(br) |->
                         IF br[i].route_id = t.route_id
                         THEN <<[trip_id |-> t.trip_id, route_id |-> t.route_id,
                                 route_short_name |-> br[i].route_short_name,
                                 direction_id |-> t.direction_id,
                                 service_id |-> t.service_id,
                                 block_id |-> t.block_id]>>
                         ELSE <<>>]
    IN Concat([n \in 1..Len(trps) |-> Concat(joined(trps[n]))])

\* The stop_times frame with the two *_sec columns added (line 83-84).
with_seconds(st) ==
    [i \in 1..Len(st) |->
        [trip_id |-> st[i].trip_id, stop_sequence |-> st[i].stop_sequence,
         stop_id |-> st[i].stop_id,
         arrival_time_sec |-> hms_to_seconds(st[i].arrival_time),
         departure_time_sec |-> hms_to_seconds(st[i].departure_time)]]

times_raise(st) ==
    \E i \in 1..Len(st) :
        hms_raises(st[i].arrival_time) \/ hms_raises(st[i].departure_time)

\* One record per trip_id: first departure, last arrival, first and last stop
\* in stop_sequence order.  runtime is in seconds.
runtime_of(sts) ==
    LET sorted == SortedBy(sts, LAMBDA r : <<r.trip_id, r.stop_sequence>>)
        ids    == SortedBy(SetToSeq({r.trip_id : r \in Range(sts)}), LAMBDA x : <<x>>)
        rowsOf(t) == SelectRows(sorted, LAMBDA r : r.trip_id = t)
        trip_first(t) == rowsOf(t)[1]
        trip_last(t)  == rowsOf(t)[Len(rowsOf(t))]
    IN [n \in 1..Len(ids) |->
          [trip_id |-> ids[n],
           start_sec |-> trip_first(ids[n]).departure_time_sec,
           end_sec |-> trip_last(ids[n]).arrival_time_sec,
           first_stop_id |-> trip_first(ids[n]).stop_id,
           last_stop_id |-> trip_last(ids[n]).stop_id,
           runtime |-> trip_last(ids[n]).arrival_time_sec
                         - trip_first(ids[n]).departure_time_sec]]

\* bus_trips.merge(runtime, on="trip_id"), restricted to weekday services,
\* with the time band of the start instant (lines 102-110).
bus_trip_runtime_of(trps, rts, sts, cal) ==
    LET rt == runtime_of(sts)
        bt == bus_trips_of(trps, rts)
        joined(t) == [i \in 1..Len(rt) |->
                        IF rt[i].trip_id = t.trip_id
                        THEN <<[trip_id |-> t.trip_id, route_id |-> t.route_id,
                                route_short_name |-> t.route_short_name,
                                direction_id |-> t.direction_id,
                                service_id |-> t.service_id,
                                block_id |-> t.block_id,
                                start_sec |-> rt[i].start_sec,
                                end_sec |-> rt[i].end_sec,
                                first_stop_id |-> rt[i].first_stop_id,
                                last_stop_id |-> rt[i].last_stop_id,
                                runtime |-> rt[i].runtime,
                                time_band |-> time_band_from_sec(rt[i].start_sec)]>>
                        ELSE <<>>]
        merged == Concat([n \in 1..Len(bt) |-> Concat(joined(bt[n]))])
    IN SelectRows(merged, LAMBDA r : r.service_id \in weekday_service_ids(cal))

(***************************************************************************)
(* Runtime Variability Aggregator, Block Layover Reconstructor             *)
(***************************************************************************)
\* Code points of the leading characters of a band label: labels are plain
\* strings in the script, so they sort by code point ("A" < "E" < "M" ...).
BandCodes(b) ==
    CASE b = AMPeak -> <<65, 77>>
      [] b = Evening -> <<69, 118>>
      [] b = Midday -> <<77, 105>>
      [] b = Overnight -> <<79, 118>>
      [] b = PMPeak -> <<80, 77>>

GroupKey(r) == <<r.route_id, r.route_short_name, r.direction_id>> \o BandCodes(r.time_band)

\* groupby(...) group keys, in sorted key order.
GroupKeys(rows) ==
    LET reps == {r \in Range(rows) :
                    r = rows[CHOOSE i \in 1..Len(rows) :
                                 /\ GroupKey(rows[i]) = GroupKey(r)
                                 /\ \A j \in 1..(i - 1) : GroupKey(rows[j]) # GroupKey(r)]}
    IN SortedBy(SetToSeq(reps), GroupKey)

Column(rows, Get(_)) == [i \in 1..Len(rows) |-> Get(rows[i])]

\* summary (lines 113-125): runtime statistics per group, most trips first.
summary_of(btr) ==
    LET keys == GroupKeys(btr)
        grp(g) == SelectRows(btr, LAMBDA r : GroupKey(r) = GroupKey(g))
        vals(g) == Column(grp(g), LAMBDA r : r.runtime)
        agg == [i \in 1..Len(keys) |->
                  [route_id |-> keys[i].route_id,
                   route_short_name |-> keys[i].route_short_name,
                   direction_id |-> keys[i].direction_id,
                   time_band |-> keys[i].time_band,
                   trips |-> Len(grp(keys[i])),
                   median_runtime |-> QuantileTimes(vals(keys[i]), 1, 2),
                   p10_runtime |-> QuantileTimes(vals(keys[i]), 1, 10),
                   p90_runtime |-> QuantileTimes(vals(keys[i]), 9, 10),
                   runtime_spread |-> QuantileTimes(vals(keys[i]), 9, 10)
                                        - QuantileTimes(vals(keys[i]), 1, 10)]]
    IN SortedBy(agg, LAMBDA r : <<0 - r.trips>>)

NaN == <<>>
Val(x) == <<x>>
IsNaN(x) == x = NaN

SameBlock(a, b) == a.service_id = b.service_id /\ a.block_id = b.block_id

\* block_trips before dropna (lines 128-153): sorted by (service, block,
\* start), each row with the start and first stop of the next row of its
\* block (groupby(...).shift(-1)), NaN for the last row of a block.
block_trips_of(btr) ==
    LET srt == SortedBy(btr, LAMBDA r : <<r.service_id, r.block_id, r.start_sec>>)
        hasNext(i) == i < Len(srt) /\ SameBlock(srt[i], srt[i + 1])
    IN [i \in 1..Len(srt) |->
          [trip_id |-> srt[i].trip_id, route_id |-> srt[i].route_id,
           route_short_name |-> srt[i].route_short_name,
           direction_id |-> srt[i].direction_id,
           service_id |-> srt[i].service_id, block_id |-> srt[i].block_id,
           start_sec |-> srt[i].start_sec, end_sec |-> srt[i].end_sec,
           first_stop_id |-> srt[i].first_stop_id,
           last_stop_id |-> srt[i].last_stop_id,
           next_start_sec |-> IF hasNext(i) THEN Val(srt[i + 1].start_sec) ELSE NaN,
           next_first_stop_id |-> IF hasNext(i) THEN Val(srt[i + 1].first_stop_id) ELSE NaN,
           layover |-> IF hasNext(i) THEN Val(srt[i + 1].start_sec - srt[i].end_sec) ELSE NaN,
           time_band |-> time_band_from_sec(srt[i].end_sec)]]

MaxLayoverMin == 120

\* The retention filter of lines 158-162 (layover is in seconds).
reasonable_loose(r) ==
    /\ r.layover[1] >= 0
    /\ r.layover[1] <= MaxLayoverMin * 60

reasonable(r) ==
    /\ r.layover[1] >= 0
    /\ r.layover[1] <= MaxLayoverMin * 60
    /\ r.last_stop_id = r.next_first_stop_id[1]

\* dropna on the two shifted columns, then the filter.
layovers_of(bt) ==
    SelectRows(SelectRows(bt, LAMBDA r : ~IsNaN(r.next_start_sec)
                                          /\ ~IsNaN(r.next_first_stop_id)),
               reasonable)

\* layover_summary (lines 165-176): count and median per group, smallest
\* median first.  The p10/p90 columns are not read again and are left out.
layover_summary_of(lay) ==
    LET keys == GroupKeys(lay)
        grp(g) == SelectRows(lay, LAMBDA r : GroupKey(r) = GroupKey(g))
        agg == [i \in 1..Len(keys) |->
                  [route_id |-> keys[i].route_id,
                   route_short_name |-> keys[i].route_short_name,
                   direction_id |-> keys[i].direction_id,
                   time_band |-> keys[i].time_band,
                   layovers |-> Len(grp(keys[i])),
                   median_layover |->
                       QuantileTimes(Column(grp(keys[i]), LAMBDA r : r.layover[1]), 1, 2)]]
    IN SortedBy(agg, LAMBDA r : <<r.median_layover>>)

(***************************************************************************)
(* Fragility Scorer                                                        *)
(***************************************************************************)
DefaultLayoverMin == 10

\* summary.merge(layover_summary, how="left") and fillna(10) (lines 178-185).
\* median_layover is in half seconds (minutes * 120).
merged_base(sm, ls) ==
    LET match(r) == SelectRows(ls, LAMBDA l : GroupKey(l) = GroupKey(r))
        row(r, m) == [route_id |-> r.route_id,
                      route_short_name |-> r.route_short_name,
                      direction_id |-> r.direction_id,
                      time_band |-> r.time_band,
                      trips |-> r.trips,
                      median_runtime |-> r.median_runtime,
                      p10_runtime |-> r.p10_runtime,
                      p90_runtime |-> r.p90_runtime,
                      runtime_spread |-> r.runtime_spread,
                      layovers |-> IF m = <<>> THEN NaN ELSE Val(m[1].layovers),
                      median_layover |-> IF m = <<>> THEN DefaultLayoverMin * 120
                                         ELSE m[1].median_layover]
    IN Concat([i \in 1..Len(sm) |->
                  IF match(sm[i]) = <<>> THEN <<row(sm[i], <<>>)>>
                  ELSE [j \in 1..Len(match(sm[i])) |-> row(sm[i], <<match(sm[i])[j]>>)]])

ClipLower0(x) == IF x < 0 THEN 0 ELSE x
Max(a, b) == IF a > b THEN a ELSE b

\* k (lines 189-194) in 1/200 second: median + 2*IQR of the clipped spreads,
\* or their 90th percentile when the IQR is 0, floored at one minute.
k_norm(fb) ==
    LET spread == Column(fb, LAMBDA r : ClipLower0(r.runtime_spread))
        q50 == QuantileTimes(spread, 1, 2)
        iqr == QuantileTimes(spread, 3, 4) - QuantileTimes(spread, 1, 4)
        kn == IF iqr > 0 THEN 10 * q50 + 10 * iqr
              ELSE 2 * QuantileTimes(spread, 9, 10)
    IN Max(kn, 12000)

\* 0.95 / (1 + lay), lay = max(median_layover, 0) minutes.
layover_score(r) == Frac(114, 120 + ClipLower0(r.median_layover))

runtime_score_unbounded(r, kn) == Frac(20 * ClipLower0(r.runtime_spread), kn)

\* spread / (spread + k), spread clipped at 0.
runtime_score(r, kn) ==
    Frac(20 * ClipLower0(r.runtime_spread), 20 * ClipLower0(r.runtime_spread) + kn)

\* The decimal digit d and remainder of 10 * r / den.
NextDigit(r, den) == [digit |-> (10 * r) \div den, rest |-> (10 * r) % den]

\* round(x, 2) of a non-negative fraction, in hundredths, ties to even.
RoundHundredths(x) ==
    LET whole == x.num \div x.den
        d1 == NextDigit(x.num % x.den, x.den)
        d2 == NextDigit(d1.rest, x.den)
        down == 100 * whole + 10 * d1.digit + d2.digit
    IN IF 2 * d2.rest > x.den THEN down + 1
       ELSE IF 2 * d2.rest = x.den /\ down % 2 = 1 THEN down + 1
       ELSE down

\* 35 * layover_score + 60 * runtime_score, before rounding.
composite(r, kn) ==
    FracAdd(FracScale(35, layover_score(r)), FracScale(60, runtime_score(r, kn)))

RECURSIVE Join(_)
Join(parts) == IF Len(parts) <= 1 THEN parts
               ELSE <<parts[1], ", ">> \o Join(Tail(parts))

NoRecovery == "no recovery time"
VeryLowRecovery == "very low recovery time"
HighVariability == "high schedule variability"
Moderate == "moderate"

\* explain(row) (lines 212-222); the threshold is the 90th percentile of the
\* runtime_spread column of the whole frame.
explain_no_elif(r, fb) ==
    LET p90 == QuantileTimes(Column(fb, LAMBDA x : x.runtime_spread), 9, 10)
        recovery == (IF r.median_layover <= 120 THEN <<NoRecovery>> ELSE <<>>)
                    \o (IF r.median_layover <= 360 THEN <<VeryLowRecovery>> ELSE <<>>)
        variability == IF 10 * r.runtime_spread >= p90 THEN <<HighVariability>> ELSE <<>>
    IN IF recovery \o variability = <<>> THEN <<Moderate>>
       ELSE Join(recovery \o variability)

explain(r, fb) ==
    LET p90 == QuantileTimes(Column(fb, LAMBDA x : x.runtime_spread), 9, 10)
        recovery == IF r.median_layover <= 120 THEN <<NoRecovery>>
                    ELSE IF r.median_layover <= 360 THEN <<VeryLowRecovery>>
                    ELSE <<>>
        variability == IF 10 * r.runtime_spread >= p90 THEN <<HighVariability>> ELSE <<>>
    IN IF recovery \o variability = <<>> THEN <<Moderate>>
       ELSE Join(recovery \o variability)

\* fragility_base after lines 178-224.
fragility_base_of(sm, ls) ==
    LET fb == merged_base(sm, ls)
        kn == IF fb = <<>> THEN 12000 ELSE k_norm(fb)
    IN [i \in 1..Len(fb) |->
          [route_id |-> fb[i].route_id,
           route_short_name |-> fb[i].route_short_name,
           direction_id |-> fb[i].direction_id,
           time_band |-> fb[i].time_band,
           trips |-> fb[i].trips,
           runtime_spread |-> fb[i].runtime_spread,
           layovers |-> fb[i].layovers,
           median_layover |-> fb[i].median_layover,
           layover_score |-> layover_score(fb[i]),
           runtime_score |-> runtime_score(fb[i], kn),
           fragility_score |-> RoundHundredths(composite(fb[i], kn)),
           why |-> explain(fb[i], fb)]]

(***************************************************************************)
(* Output Writer                                                           *)
(***************************************************************************)
\* fragility_base.sort_values(["route_id", "direction_id", "time_band"]): the
\* time_band column holds the label strings.
SortKey(r) == <<r.route_id, r.direction_id>> \o BandCodes(r.time_band)

out_table(fb) == SortedBy(fb, SortKey)

(***************************************************************************)
(* Input feeds                                                             *)
(***************************************************************************)
MaxTrips == 3
MaxResources == 2
MaxHour == 72
MaxDays == 2

StopX == "X"
StopY == "Y"

Route(id, short, type) == [route_id |-> id, route_short_name |-> short, route_type |-> type]

\* A single bus route; two bus routes; a bus route and a subway line; a
\* route_id listed twice under two short names.
RoutesSingle == <<Route(1, 10, 3)>>
RouteTables == {<<Route(1, 10, 3), Route(2, 20, 3)>>,
                <<Route(1, 10, 3), Route(2, 20, 1)>>,
                <<Route(1, 10, 3), Route(1, 11, 3)>>}

Service(id, wk, sat, sun) ==
    [service_id |-> id, monday |-> wk, tuesday |-> wk, wednesday |-> wk,
     thursday |-> wk, friday |-> wk, saturday |-> sat, sunday |-> sun]

\* Service 1 runs Monday to Friday only, service 2 every day.
CalendarTable == <<Service(1, 1, 0, 0), Service(2, 1, 1, 1)>>

\* A scheduled trip: its trips.txt columns and the shape of its stop_times.
Trip(r, d, sv, b, st, en, fs, ls, sh) ==
    [route_id |-> r, direction_id |-> d, service_id |-> sv, block_id |-> b,
     start |-> st, end |-> en, first |-> fs, last |-> ls, shape |-> sh]

StartSecs == {3000, 3600, 3720, 10800, 10860}

CoreTrips == {Trip(1, 0, 1, 1, st, st + 600, StopX, ls, "two") :
                 st \in StartSecs, ls \in {StopX, StopY}}

OtherTrips ==
    {Trip(1, 0, 1, 2, 3720, 4320, StopX, StopX, "two"),      \* another block
     Trip(1, 1, 1, 1, 3720, 4320, StopX, StopX, "two"),      \* other direction
     Trip(2, 0, 1, 1, 3720, 4320, StopX, StopX, "two"),      \* other route
     Trip(1, 0, 2, 1, 3720, 4320, StopX, StopX, "two"),      \* not a weekday service
     Trip(1, 0, 1, 1, 3000, 4800, StopX, StopX, "two"),      \* longer runtime
     Trip(1, 0, 1, 1, 3600, 3540, StopX, StopX, "two"),      \* ends before it starts
     Trip(1, 0, 1, 1, 36000, 36600, StopX, StopX, "two"),    \* Midday
     Trip(1, 0, 1, 1, 72000, 72600, StopX, StopX, "two"),    \* Evening
     Trip(1, 0, 1, 1, 90000, 91800, StopX, StopX, "two"),    \* 25:00:00, past midnight
     Trip(1, 0, 1, 1, 3720, 4320, StopY, StopX, "two"),      \* starts elsewhere
     Trip(1, 0, 1, 1, 3600, 3600, StopX, StopX, "single"),   \* one stop_times row
     Trip(1, 0, 1, 1, 3600, 4200, StopX, StopX, "nonint"),   \* "ab:00:00"
     Trip(1, 0, 1, 1, 3600, 4200, StopX, StopX, "arity")}    \* "12:00"

TripChoices == SetToSeq(CoreTrips \cup OtherTrips)

RouteTripChoices ==
    <<Trip(1, 0, 1, 1, 3000, 3600, StopX, StopX, "two"),
      Trip(1, 0, 1, 1, 3720, 4320, StopX, StopX, "two"),
      Trip(1, 1, 1, 1, 3720, 4320, StopX, StopX, "two"),
      Trip(2, 0, 1, 1, 3720, 4320, StopX, StopX, "two"),
      Trip(1, 0, 1, 1, 3000, 4800, StopX, StopX, "two"),
      Trip(1, 0, 1, 1, 36000, 36600, StopX, StopX, "two"),
      Trip(1, 0, 1, 1, 72000, 72600, StopX, StopX, "two")>>

\* Every way to list 1..MaxTrips of the choices (listed in choice order).
TripLists(choices) ==
    UNION {{[i \in 1..n |-> choices[ix[i]]] :
              ix \in {f \in [1..n -> 1..Len(choices)] :
                         \A i \in 1..(n - 1) : f[i] <= f[i + 1]}} :
           n \in 1..MaxTrips}

StopTime(t, seq, arr, dep, stop) ==
    [trip_id |-> t, stop_sequence |-> seq, arrival_time |-> arr,
     departure_time |-> dep, stop_id |-> stop]

BadInt == <<"a", "b", ":", "0", "0", ":", "0", "0">>
BadArity == <<"1", "2", ":", "0", "0">>

\* The stop_times rows of trip number i: the last stop is listed first, the
\* vehicle reaches the first stop a minute early and leaves the last one a
\* minute late.
StopTimesOf(i, t) ==
    IF t.shape = "single"
    THEN <<StopTime(i, 1, ClockText(t.end), ClockText(t.start), t.first)>>
    ELSE <<StopTime(i, 2, ClockText(t.end),
                    IF t.shape = "arity" THEN BadArity ELSE ClockText(t.end + 60), t.last),
           StopTime(i, 1, IF t.shape = "nonint" THEN BadInt ELSE ClockText(t.start - 60),
                    ClockText(t.start), t.first)>>

Feed(rts, tl) ==
    [routes |-> rts,
     trips |-> [i \in 1..Len(tl) |->
                  [trip_id |-> i, route_id |-> tl[i].route_id,
                   direction_id |-> tl[i].direction_id,
                   service_id |-> tl[i].service_id, block_id |-> tl[i].block_id]],
     stop_times |-> Concat([i \in 1..Len(tl) |-> StopTimesOf(i, tl[i])]),
     calendar |-> CalendarTable]

Res(u, n) == [url |-> u, name |-> n]
ResourceChoices ==
    {Res(<<"opendata/", "GTFS", ".zip">>, <<"TTC Routes">>),
     Res(<<"opendata/", "ttc", ".ZIP">>, <<"Merged ", "Gtfs">>),
     Res(<<"opendata/", "ttc", ".zip">>, <<"schedules">>),
     Res(<<"opendata/", "gtfs", ".csv">>, <<"gtfs readme">>),
     Res(<<>>, <<>>)}
ResourceLists == UNION {[1..n -> ResourceChoices] : n \in 0..MaxResources}
StdResources == <<Res(<<"opendata/", "gtfs", ".csv">>, <<"gtfs readme">>),
                  Res(<<"opendata/", "GTFS", ".zip">>, <<"TTC Routes">>)>>

\* The two-trip scenario: A ends at stop X at 3600, B starts there at 3720.
ScenarioFeed ==
    Feed(RoutesSingle, <<Trip(1, 0, 1, 1, 3000, 3600, StopX, StopX, "two"),
                         Trip(1, 0, 1, 1, 3720, 4320, StopX, StopX, "two")>>)

NoFile == <<>>
File(table) == <<table>>
OldFile == File(<<[route_id |-> 1, direction_id |-> 0, time_band |-> Overnight]>>)
RunDate == "2026-01-14"

(***************************************************************************)
(* One run of the pipeline script                                          *)
(***************************************************************************)
InitPipe ==
    /\ pc = "catalog"
    /\ err = ""
    /\ gtfs_url = <<>>
    /\ routes = <<>> /\ trips = <<>> /\ stop_times = <<>> /\ calendar = <<>>
    /\ bus_trip_runtime = <<>> /\ summary = <<>> /\ block_trips = <<>>
    /\ layovers = <<>> /\ layover_summary = <<>>
    /\ k = NaN /\ fragility_base = <<>> /\ out = <<>>
    /\ \/ /\ resources = StdResources
          /\ archive \in {Feed(RoutesSingle, tl) : tl \in TripLists(TripChoices)}
          /\ prior_files = [dated |-> OldFile, latest |-> OldFile]
       \/ /\ resources = StdResources
          /\ archive \in {Feed(rts, tl) : rts \in RouteTables,
                                          tl \in TripLists(RouteTripChoices)}
          /\ prior_files = [dated |-> NoFile, latest |-> OldFile]
       \/ /\ resources \in ResourceLists
          /\ archive = ScenarioFeed
          /\ prior_files \in [dated : {NoFile, OldFile}, latest : {NoFile, OldFile}]
    /\ dated_file = prior_files.dated
    /\ latest_file = prior_files.latest

\* The exception reaches an output file already opened for writing.
Abort_truncating(e) ==
    /\ pc' = "aborted"
    /\ err' = e
    /\ latest_file' = File(<<>>)
    /\ UNCHANGED <<resources, archive, gtfs_url, routes, trips, stop_times, calendar,
                   bus_trip_runtime, summary, block_trips, layovers, layover_summary, k,
                   fragility_base, out, prior_files, dated_file>>
    /\ UNCHANGED <<bandVars, appVars>>

\* An uncaught exception ends the script.
Abort(e) ==
    /\ pc' = "aborted"
    /\ err' = e
    /\ UNCHANGED <<resources, archive, gtfs_url, routes, trips, stop_times, calendar,
                   bus_trip_runtime, summary, block_trips, layovers, layover_summary, k,
                   fragility_base, out, prior_files, dated_file, latest_file>>
    /\ UNCHANGED <<bandVars, appVars>>

\* requests.get(package_show).json() and pkg["result"]["resources"].
FetchCatalog ==
    /\ pc = "catalog"
    /\ pc' = "select"
    /\ UNCHANGED <<err, resources, archive, gtfs_url, routes, trips, stop_times,
                   calendar, bus_trip_runtime, summary, block_trips, layovers,
                   layover_summary, k, fragility_base, out, prior_files, dated_file,
                   latest_file>>
    /\ UNCHANGED <<bandVars, appVars>>

\* The request times out, or the reply has no "result".
FetchCatalogFails == pc = "catalog" /\ Abort("CatalogError")

SelectResource ==
    /\ pc = "select"
    /\ gtfs_res(resources) # NoResource
    /\ gtfs_url' = resources[gtfs_res(resources)].url
    /\ pc' = "download"
    /\ UNCHANGED <<err, resources, archive, routes, trips, stop_times,
                   calendar, bus_trip_runtime, summary, block_trips, layovers,
                   layover_summary, k, fragility_base, out, prior_files, dated_file,
                   latest_file>>
    /\ UNCHANGED <<bandVars, appVars>>

\* raise RuntimeError("Couldn't find a GTFS zip resource ...")
SelectResourceFails ==
    /\ pc = "select"
    /\ gtfs_res(resources) = NoResource
    /\ Abort("RuntimeError")

\* requests.get(gtfs_url).content and zipfile.ZipFile(...).
Download ==
    /\ pc = "download"
    /\ pc' = "read"
    /\ UNCHANGED <<err, resources, archive, gtfs_url, routes, trips, stop_times,
                   calendar, bus_trip_runtime, summary, block_trips, layovers,
                   layover_summary, k, fragility_base, out, prior_files, dated_file,
                   latest_file>>
    /\ UNCHANGED <<bandVars, appVars>>

\* The request times out, or the body is no zip archive.
DownloadFails == pc = "download" /\ Abort("DownloadError")

\* The four read_txt calls.
ReadTables ==
    /\ pc = "read"
    /\ routes' = archive.routes
    /\ trips' = archive.trips
    /\ stop_times' = archive.stop_times
    /\ calendar' = archive.calendar
    /\ pc' = "times"
    /\ UNCHANGED <<err, resources, archive, gtfs_url,
                   bus_trip_runtime, summary, block_trips, layovers,
                   layover_summary, k, fragility_base, out, prior_files, dated_file,
                   latest_file>>
    /\ UNCHANGED <<bandVars, appVars>>

\* A member is missing from the archive or does not parse as a table.
ReadTablesFails == pc = "read" /\ Abort("UnreadableFeed")

\* stop_times[col + "_sec"] = stop_times[col].astype(str).map(hms_to_seconds)
ParseTimes ==
    /\ pc = "times"
    /\ ~times_raise(stop_times)
    /\ stop_times' = with_seconds(stop_times)
    /\ pc' = "runtime"
    /\ UNCHANGED <<err, resources, archive, gtfs_url, routes, trips, calendar,
                   bus_trip_runtime, summary, block_trips, layovers,
                   layover_summary, k, fragility_base, out, prior_files, dated_file,
                   latest_file>>
    /\ UNCHANGED <<bandVars, appVars>>

\* hms_to_seconds raises and nothing catches it.
ParseTimesFails ==
    /\ pc = "times"
    /\ times_raise(stop_times)
    /\ Abort("ValueError")

ComputeRuntime ==
    /\ pc = "runtime"
    /\ bus_trip_runtime' = bus_trip_runtime_of(trips, routes, stop_times, calendar)
    /\ pc' = "summary"
    /\ UNCHANGED <<err, resources, archive, gtfs_url, routes, trips, stop_times,
                   calendar, summary, block_trips, layovers,
                   layover_summary, k, fragility_base, out, prior_files, dated_file,
                   latest_file>>
    /\ UNCHANGED <<bandVars, appVars>>

Summarize ==
    /\ pc = "summary"
    /\ summary' = summary_of(bus_trip_runtime)
    /\ pc' = "layovers"
    /\ UNCHANGED <<err, resources, archive, gtfs_url, routes, trips, stop_times,
                   calendar, bus_trip_runtime, block_trips, layovers,
                   layover_summary, k, fragility_base, out, prior_files, dated_file,
                   latest_file>>
    /\ UNCHANGED <<bandVars, appVars>>

ReconstructLayovers ==
    /\ pc = "layovers"
    /\ block_trips' = block_trips_of(bus_trip_runtime)
    /\ layovers' = layovers_of(block_trips')
    /\ layover_summary' = layover_summary_of(layovers')
    /\ pc' = "score"
    /\ UNCHANGED <<err, resources, archive, gtfs_url, routes, trips, stop_times,
                   calendar, bus_trip_runtime, summary, k,
                   fragility_base, out, prior_files, dated_file, latest_file>>
    /\ UNCHANGED <<bandVars, appVars>>

Score ==
    /\ pc = "score"
    /\ fragility_base' = fragility_base_of(summary, layover_summary)
    /\ k' = IF merged_base(summary, layover_summary) = <<>> THEN NaN
               ELSE Val(k_norm(merged_base(summary, layover_summary)))
    /\ pc' = "sort"
    /\ UNCHANGED <<err, resources, archive, gtfs_url, routes, trips, stop_times,
                   calendar, bus_trip_runtime, summary, block_trips, layovers,
                   layover_summary, out, prior_files, dated_file, latest_file>>
    /\ UNCHANGED <<bandVars, appVars>>

\* With no row at all, apply(explain, axis=1) returns a frame, and assigning
\* it to the "why" column raises in some pandas versions.
ScoreEmptyRaises ==
    /\ pc = "score"
    /\ summary = <<>>
    /\ Abort("EmptyFrameError")

SortOutput ==
    /\ pc = "sort"
    /\ out' = [i \in 1..Len(fragility_base) |->
                  [row |-> out_table(fragility_base)[i], data_updated_date |-> RunDate]]
    /\ pc' = "write_dated"
    /\ UNCHANGED <<err, resources, archive, gtfs_url, routes, trips, stop_times,
                   calendar, bus_trip_runtime, summary, block_trips, layovers,
                   layover_summary, k, fragility_base, prior_files, dated_file,
                   latest_file>>
    /\ UNCHANGED <<bandVars, appVars>>

\* out.to_csv(dated_path)
WriteDated ==
    /\ pc = "write_dated"
    /\ dated_file' = File(out)
    /\ pc' = "write_latest"
    /\ UNCHANGED <<err, resources, archive, gtfs_url, routes, trips, stop_times,
                   calendar, bus_trip_runtime, summary, block_trips, layovers,
                   layover_summary, k, fragility_base, out, prior_files, latest_file>>
    /\ UNCHANGED <<bandVars, appVars>>

\* out.to_csv(latest_path)
WriteLatest ==
    /\ pc = "write_latest"
    /\ latest_file' = File(out)
    /\ pc' = "done"
    /\ UNCHANGED <<err, resources, archive, gtfs_url, routes, trips, stop_times,
                   calendar, bus_trip_runtime, summary, block_trips, layovers,
                   layover_summary, k, fragility_base, out, prior_files, dated_file>>
    /\ UNCHANGED <<bandVars, appVars>>

Next ==
    \/ FetchCatalog \/ FetchCatalogFails
    \/ SelectResource \/ SelectResourceFails
    \/ Download \/ DownloadFails
    \/ ReadTables \/ ReadTablesFails
    \/ ParseTimes \/ ParseTimesFails
    \/ ComputeRuntime \/ Summarize \/ ReconstructLayovers
    \/ Score \/ ScoreEmptyRaises
    \/ SortOutput \/ WriteDated \/ WriteLatest

\* The script is not running.
IdlePipe ==
    /\ pc = "idle"
    /\ err = ""
    /\ resources = <<>>
    /\ archive = <<>>
    /\ gtfs_url = <<>>
    /\ routes = <<>> /\ trips = <<>> /\ stop_times = <<>> /\ calendar = <<>>
    /\ bus_trip_runtime = <<>> /\ summary = <<>> /\ block_trips = <<>>
    /\ layovers = <<>> /\ layover_summary = <<>>
    /\ k = NaN /\ fragility_base = <<>> /\ out = <<>>
    /\ prior_files = [dated |-> NoFile, latest |-> NoFile]
    /\ dated_file = NoFile
    /\ latest_file = NoFile

(***************************************************************************)
(* The Time Normalizer applied to clock texts                              *)
(***************************************************************************)
\* A clock text waits to be parsed; start_sec and band are NaN until set.
InitBand ==
    /\ \E h \in 0..MaxHour, m \in 0..59, sec \in {0, 30, 59} :
           clock_text = ClockText(h * 3600 + m * 60 + sec)
    /\ start_sec = NaN
    /\ band = NaN

ParseClock ==
    /\ IsNaN(start_sec)
    /\ ~hms_raises(clock_text)
    /\ start_sec' = Val(hms_to_seconds(clock_text))
    /\ UNCHANGED <<clock_text, band>>
    /\ UNCHANGED <<pipeVars, appVars>>

AssignBand ==
    /\ ~IsNaN(start_sec)
    /\ IsNaN(band)
    /\ band' = Val(time_band_from_sec(start_sec[1]))
    /\ UNCHANGED <<clock_text, start_sec>>
    /\ UNCHANGED <<pipeVars, appVars>>

(***************************************************************************)
(* app.py: one script run per session                                      *)
(***************************************************************************)
MaxBuilds == 2

None == "None"
OrEmpty(x) == IF x = None THEN "" ELSE x
EmptyDict == <<>>
IsEmptyDict(d) == DOMAIN d = {}
Get(d, key) == IF key \in DOMAIN d THEN d[key] ELSE None

Signature(e, lm, cl) ==
    [gtfs_url |-> "opendata/GTFS.zip", etag |-> e, last_modified |-> lm,
     content_length |-> cl]

\* What the HEAD request can report: full headers, a new ETag, no ETag and
\* no Last-Modified, another length.
Signatures == {Signature("e1", "mon", "100"), Signature("e2", "mon", "100"),
               Signature(None, None, "100"), Signature(None, None, "200")}

signature_changed(old, new) ==
    IF IsEmptyDict(old) THEN TRUE
    ELSE \E key \in {"etag", "last_modified", "content_length", "gtfs_url"} :
             OrEmpty(Get(old, key)) # OrEmpty(Get(new, key))

InitApp ==
    /\ csv_file \in {NoFile, File(0)}
    /\ built_file = NoFile
    /\ meta = EmptyDict
    /\ remote \in Signatures
    /\ data_cache = NoFile
    /\ builds = 0
    /\ session = [n |-> 0, force |-> FALSE, checked |-> FALSE, same_sig |-> FALSE,
                  had_build |-> FALSE, rebuild |-> "none", read |-> "none",
                  df |-> NoFile, last_built |-> NoFile]

\* One run of app.py up to df = load_data().  force: the sidebar button;
\* checkOk: the two freshness requests succeed; buildOk: the script exits 0.
RunSession(force, checkOk, buildOk) ==
    LET remote_sig == IF checkOk THEN remote ELSE EmptyDict
        changed == checkOk /\ signature_changed(meta, remote_sig)
        needs_rebuild == force \/ csv_file = NoFile \/ changed
        stop_check == ~checkOk /\ csv_file = NoFile
        attempt == ~stop_check /\ needs_rebuild
        built == attempt /\ buildOk
        stop_build == attempt /\ ~buildOk /\ csv_file = NoFile
        loads == ~stop_check /\ ~stop_build
        df == IF data_cache # NoFile THEN data_cache ELSE csv_file
    IN /\ builds < MaxBuilds
       /\ built_file' = IF built THEN File(builds + 1) ELSE built_file
       /\ builds' = IF built THEN builds + 1 ELSE builds
       /\ meta' = IF built THEN remote_sig ELSE meta
       /\ data_cache' = IF loads THEN df ELSE data_cache
       /\ session' = [n |-> (session.n + 1) % 2,
                      force |-> force,
                      checked |-> checkOk,
                      same_sig |-> checkOk /\ ~IsEmptyDict(meta)
                                   /\ \A key \in DOMAIN remote_sig :
                                          Get(meta, key) = remote_sig[key],
                      had_build |-> builds > 0 /\ ~IsEmptyDict(meta),
                      rebuild |-> IF ~attempt THEN "none"
                                  ELSE IF buildOk THEN "ok" ELSE "failed",
                      read |-> IF ~loads THEN "stopped"
                               ELSE IF df = NoFile THEN "FileNotFoundError"
                               ELSE "loaded",
                      df |-> IF loads THEN df ELSE NoFile,
                      last_built |-> built_file]
       /\ UNCHANGED <<csv_file, remote>>
       /\ UNCHANGED <<pipeVars, bandVars>>

Session == \E force \in BOOLEAN, checkOk \in BOOLEAN, buildOk \in BOOLEAN :
               RunSession(force, checkOk, buildOk)

\* The agency publishes a new archive.
RemoteChanges ==
    /\ remote' \in Signatures \ {remote}
    /\ UNCHANGED <<csv_file, built_file, meta, data_cache, builds, session>>
    /\ UNCHANGED <<pipeVars, bandVars>>

\* The Streamlit server restarts and its caches are gone.
ServerRestart ==
    /\ data_cache # NoFile
    /\ data_cache' = NoFile
    /\ UNCHANGED <<csv_file, built_file, meta, remote, builds, session>>
    /\ UNCHANGED <<pipeVars, bandVars>>

\* app.py BAND_ORDER: the chronological order the dashboard sorts by.
BAND_ORDER == <<Overnight, AMPeak, Midday, PMPeak, Evening>>

(***************************************************************************)
(* Specifications                                                          *)
(***************************************************************************)
IdleBand ==
    /\ clock_text = <<>>
    /\ start_sec = NaN
    /\ band = NaN

IdleApp ==
    /\ csv_file = NoFile
    /\ built_file = NoFile
    /\ meta = EmptyDict
    /\ remote = EmptyDict
    /\ data_cache = NoFile
    /\ builds = 0
    /\ session = [n |-> 0]

Init == InitPipe /\ IdleBand /\ IdleApp
Spec == Init /\ [][Next]_vars

InitBandSpec == IdlePipe /\ InitBand /\ IdleApp
NextBand == ParseClock \/ AssignBand
SpecBand == InitBandSpec /\ [][NextBand]_vars

InitAppSpec == IdlePipe /\ IdleBand /\ InitApp
NextApp == Session \/ RemoteChanges \/ ServerRestart
SpecApp == InitAppSpec /\ [][NextApp]_vars

(***************************************************************************)
(* Properties                                                              *)
(***************************************************************************)
LayoversDone == pc \in {"score", "sort", "write_dated", "write_latest", "done"}
Scored == pc \in {"sort", "write_dated", "write_latest", "done"}

HasSuccessor(i) == i < Len(block_trips) /\ SameBlock(block_trips[i], block_trips[i + 1])
GapSec(i) == block_trips[i + 1].start_sec - block_trips[i].end_sec
Retained(i) == \E j \in 1..Len(layovers) : layovers[j] = block_trips[i]

\* C1: block_trips holds every weekday bus trip once, grouped by (service_id,
\* block_id) and by ascending start inside a block; the trip at position i
\* yields a retained layover record iff it has an immediate successor in its
\* block, 0 <= (S.start - P.end)/60 <= 120 and P.last_stop_id =
\* S.first_stop_id; a trip without successor yields none, and every retained
\* record carries that gap and meets both conditions.
C1_LayoverRetainedIff ==
    LayoversDone =>
        /\ Len(block_trips) = Len(bus_trip_runtime)
        /\ {[trip_id |-> r.trip_id, route_short_name |-> r.route_short_name] :
                r \in Range(block_trips)}
             = {[trip_id |-> r.trip_id, route_short_name |-> r.route_short_name] :
                r \in Range(bus_trip_runtime)}
        /\ \A i, j \in 1..Len(block_trips) :
               i < j /\ SameBlock(block_trips[i], block_trips[j]) =>
                   /\ block_trips[i].start_sec <= block_trips[j].start_sec
                   /\ \A m \in i..j : SameBlock(block_trips[i], block_trips[m])
        /\ \A i \in 1..Len(block_trips) :
               Retained(i) <=>
                   /\ HasSuccessor(i)
                   /\ 0 <= GapSec(i) /\ GapSec(i) <= 120 * 60
                   /\ block_trips[i].last_stop_id = block_trips[i + 1].first_stop_id
        /\ \A j \in 1..Len(layovers) :
               /\ \E i \in 1..Len(block_trips) :
                      /\ layovers[j] = block_trips[i]
                      /\ HasSuccessor(i)
                      /\ layovers[j].layover = Val(GapSec(i))
               /\ 0 <= layovers[j].layover[1] /\ layovers[j].layover[1] <= 120 * 60
               /\ Val(layovers[j].last_stop_id) = layovers[j].next_first_stop_id

\* Three trips of one block: a 120-minute layover is kept, the next pair is
\* dropped, the last trip has no successor.
C1_Witness ==
    /\ pc = "done"
    /\ Len(block_trips) = 3
    /\ \E j \in 1..Len(layovers) : layovers[j].layover = Val(120 * 60)
    /\ \E i \in 1..Len(block_trips) : HasSuccessor(i) /\ ~Retained(i)
    /\ ~HasSuccessor(3)

\* C2: for every row, layover_score = 0.95/(1 + max(layover, 0)) lies in
\* (0, 0.95], runtime_score = max(spread,0)/(max(spread,0) + k) with k >= 1.0
\* lies in [0, 1), and fragility_score = round(35*layover_score +
\* 60*runtime_score, 2) lies in [0, 95).
C2_ScoresBounded ==
    Scored /\ fragility_base # <<>> =>
        /\ k[1] >= 12000
        /\ \A i \in 1..Len(fragility_base) :
             LET r == fragility_base[i]
                 lay == IF r.median_layover < 0 THEN 0 ELSE r.median_layover
                 spr == IF r.runtime_spread < 0 THEN 0 ELSE r.runtime_spread
                 sum == FracAdd(FracScale(35, r.layover_score),
                                FracScale(60, r.runtime_score))
             IN /\ r.layover_score.num * (120 + lay) = 114 * r.layover_score.den
                /\ r.layover_score.num > 0 /\ r.layover_score.den > 0
                /\ 100 * r.layover_score.num <= 95 * r.layover_score.den
                /\ r.runtime_score.den > 0
                /\ r.runtime_score.num * (20 * spr + k[1]) = 20 * spr * r.runtime_score.den
                /\ 0 <= r.runtime_score.num
                /\ r.runtime_score.num < r.runtime_score.den
                /\ 0 <= sum.num /\ sum.num \div sum.den < 95
                /\ r.fragility_score = RoundHundredths(sum)
                /\ 0 <= r.fragility_score /\ r.fragility_score < 9500

\* One row with a median layover of exactly 0 (score 0.95), one row with the
\* default of 10 minutes (score 0.95/11), and a row with a positive spread.
C2_Witness ==
    /\ pc = "done"
    /\ \E i \in 1..Len(fragility_base) :
           /\ fragility_base[i].median_layover = 0
           /\ fragility_base[i].layover_score = [num |-> 19, den |-> 20]
    /\ \E i \in 1..Len(fragility_base) :
           /\ IsNaN(fragility_base[i].layovers)
           /\ fragility_base[i].median_layover = 10 * 120
           /\ fragility_base[i].layover_score = [num |-> 19, den |-> 220]
    /\ \E i \in 1..Len(fragility_base) :
           /\ fragility_base[i].runtime_score.num > 0
           /\ fragility_base[i].fragility_score > 0

InBandRange(b, hour) ==
    CASE b = AMPeak -> 6 <= hour /\ hour < 9
      [] b = Midday -> 9 <= hour /\ hour < 15
      [] b = PMPeak -> 15 <= hour /\ hour < 19
      [] b = Evening -> 19 <= hour /\ hour < 24
      [] b = Overnight -> 0 <= hour /\ hour < 6

\* C3: for every instant s >= 0 the band of s is the one band whose hour range
\* contains floor((s mod 86400)/3600); the five ranges cover every hour of the
\* day exactly once; band_of(s) = band_of(s + 86400*n); "25:30:00" is 91800 s
\* and Overnight.
C3_BandPartition ==
    ~IsNaN(band) =>
        LET s == start_sec[1]
            hour == (s % 86400) \div 3600
        IN /\ s >= 0
           /\ band[1] \in Bands
           /\ \A b \in Bands : InBandRange(b, hour) <=> b = band[1]
           /\ \A h \in 0..23 : Cardinality({b \in Bands : InBandRange(b, h)}) = 1
           /\ \A n \in 0..MaxDays : time_band_from_sec(s + 86400 * n) = band[1]
           /\ clock_text = <<"2", "5", ":", "3", "0", ":", "0", "0">> =>
                  s = 91800 /\ band[1] = Overnight

C3_Witness ==
    /\ clock_text = <<"2", "5", ":", "3", "0", ":", "0", "0">>
    /\ start_sec = Val(91800)
    /\ band = Val(Overnight)

Triple(r) == <<r.row.route_id, r.row.direction_id, r.row.time_band>>

\* C4: no two rows of the persisted table share (route_id, direction_id,
\* time_band).
C4_GrainUnique ==
    pc = "done" =>
        \A i, j \in 1..Len(latest_file[1]) :
            i # j => Triple(latest_file[1][i]) # Triple(latest_file[1][j])

FatalErrors == {"CatalogError", "RuntimeError", "DownloadError", "UnreadableFeed",
                "ValueError", "EmptyFrameError"}

PastSelection == pc \notin {"catalog", "select"} /\ err # "CatalogError"

\* The resource the Feed Loader is said to pick: the first that looks like a
\* GTFS zip, else the first zip, else none.
ClaimedResource ==
    IF \E i \in 1..Len(resources) : LooksLikeGtfsZip(resources[i])
    THEN CHOOSE i \in 1..Len(resources) :
             /\ LooksLikeGtfsZip(resources[i])
             /\ \A j \in 1..(i - 1) : ~LooksLikeGtfsZip(resources[j])
    ELSE IF \E i \in 1..Len(resources) : EndsWithZip(resources[i].url)
    THEN CHOOSE i \in 1..Len(resources) :
             /\ EndsWithZip(resources[i].url)
             /\ \A j \in 1..(i - 1) : ~EndsWithZip(resources[j].url)
    ELSE NoResource

\* C6: the pipeline selects the first resource that looks like a GTFS zip,
\* else the first zip resource, and fails with the resource-not-found error
\* only when the catalog lists no zip resource at all.
C6_FallbackToFirstArchive ==
    PastSelection =>
        IF ClaimedResource = NoResource
        THEN pc = "aborted" /\ err = "RuntimeError"
        ELSE gtfs_url = resources[ClaimedResource].url /\ err # "RuntimeError"

\* C7: a stop_times row with unparseable clock text does not abort the run.
C7_MalformedRowSkipped ==
    times_raise(archive.stop_times) => ~(pc = "aborted" /\ err = "ValueError")

BandRank(b) == CHOOSE i \in 1..Len(BAND_ORDER) : BAND_ORDER[i] = b

\* C8: in the persisted table, of two rows of one route and direction whose
\* bands are among AM Peak, Midday, PM Peak and Evening, the row of the band
\* earlier in the fixed band order comes first.
C8_FixedBandOrder ==
    pc = "done" =>
        \A i, j \in 1..Len(latest_file[1]) :
            /\ i < j
            /\ latest_file[1][i].row.time_band # Overnight
            /\ latest_file[1][j].row.time_band # Overnight
            /\ latest_file[1][i].row.route_id = latest_file[1][j].row.route_id
            /\ latest_file[1][i].row.direction_id = latest_file[1][j].row.direction_id
            => BandRank(latest_file[1][i].row.time_band)
                   <= BandRank(latest_file[1][j].row.time_band)

Has(why, phrase) == \E i \in 1..Len(why) : why[i] = phrase
Phrases == {NoRecovery, VeryLowRecovery, HighVariability}

\* C9: "no recovery time" iff median layover <= 1 minute; "very low recovery
\* time" iff 1 < median layover <= 3 minutes; "high schedule variability" iff
\* the row's spread is at or above the 90th percentile of spread over all
\* rows; the phrases are joined with a comma; "moderate" iff none applies.
\* The two-trip scenario (A ends at X at 3600, B starts at X at 3720) gives a
\* 2.0-minute layover and a rationale with "very low recovery time".
C9_RationaleMatches ==
    Scored =>
        /\ \A i \in 1..Len(fragility_base) :
             LET r == fragility_base[i]
                 spreads == [n \in 1..Len(fragility_base) |->
                                fragility_base[n].runtime_spread]
                 sorted == SortedBy(spreads, LAMBDA x : <<x>>)
                 \* 10 times the 90th percentile, by linear interpolation
                 pos == 9 * (Len(sorted) - 1)
                 p90x10 == IF pos % 10 = 0 THEN 10 * sorted[pos \div 10 + 1]
                           ELSE 10 * sorted[pos \div 10 + 1]
                                + (pos % 10) * (sorted[pos \div 10 + 2]
                                                - sorted[pos \div 10 + 1])
                 count == Cardinality({p \in Phrases : Has(r.why, p)})
             IN /\ Has(r.why, NoRecovery) <=> r.median_layover <= 1 * 120
                /\ Has(r.why, VeryLowRecovery) <=>
                       (r.median_layover > 1 * 120 /\ r.median_layover <= 3 * 120)
                /\ ~(Has(r.why, NoRecovery) /\ Has(r.why, VeryLowRecovery))
                /\ Has(r.why, HighVariability) <=> 10 * r.runtime_spread >= p90x10
                /\ r.why = <<Moderate>> <=> count = 0
                /\ count > 0 =>
                       /\ Len(r.why) = 2 * count - 1
                       /\ \A n \in 1..Len(r.why) :
                              IF n % 2 = 0 THEN r.why[n] = ", "
                              ELSE r.why[n] \in Phrases
                       /\ \A n \in 2..Len(r.why) : r.why[n] = HighVariability => n = Len(r.why)
        /\ archive = ScenarioFeed =>
               /\ Len(layovers) = 1 /\ layovers[1].layover = Val(120)
               /\ Len(fragility_base) = 1
               /\ fragility_base[1].median_layover = 2 * 120
               /\ Has(fragility_base[1].why, VeryLowRecovery)

C9_Witness ==
    /\ pc = "done"
    /\ archive = ScenarioFeed
    /\ fragility_base[1].why = <<VeryLowRecovery, ", ", HighVariability>>

\* C10: once a rebuild has succeeded and its signature is stored, a session
\* that sees the same remote signature and is not forced runs no rebuild and
\* loads the CSV that rebuild produced.
C10_NoRebuildWhenUnchanged ==
    session.had_build /\ session.same_sig /\ ~session.force =>
        /\ session.rebuild = "none"
        /\ session.read = "loaded"
        /\ session.df = session.last_built

====
